---------------------------- MODULE Spec2Model ----------------------------
(***************************************************************************)
(* Biometric enrollment and matching of the dual authentication system.   *)
(*                                                                         *)
(*   src/src/dual_auth_system.py          BiometricSetupWindow             *)
(*   src/src/database/dual_auth_backend.py DualAuthDatabase                *)
(*   src/src/face_encoder.py              RobustFaceEncoder                *)
(*                                                                         *)
(* Real numbers (numpy float64) are modelled as fixed-point integers in    *)
(* units of 1/Scale; square roots and quotients are truncated to that      *)
(* resolution.  A Python None / a missing attribute is the empty sequence. *)
(***************************************************************************)
EXTENDS Integers, Sequences, FiniteSets, TLC

(***************************************************************************)
(* Bounds of the model                                                     *)
(***************************************************************************)
\* fixed-point resolution: the real number x is the integer x * Scale
Scale == 100
\* longest collected_encodings list explored (the code never truncates it)
MaxCollected == 6
\* most capture_sample callbacks outstanding in the Tk event queue
MaxPending == 2
\* most register_face_biometric calls made in one behaviour
MaxCalls == 3

(***************************************************************************)
(* Program constants                                                       *)
(***************************************************************************)
required_samples == 5
BrightnessMin == 50
BrightnessMax == 200
MotionMax == 15
\* default of the threshold parameter, 0.6
DefaultThreshold == (6 * Scale) \div 10

None == << >>

Users == {"u1", "u2", "u3"}

(***************************************************************************)
(* Inputs                                                                  *)
(***************************************************************************)
\* outputs of create_encoding: zero mean, unit standard deviation
SampleEncodings ==
  { << 122, 0, -122 >>, << -71, 141, -71 >> }

\* encodings presented to the database layer directly
Templates ==
  { << 122, 0, -122 >>, << -71, 141, -71 >> }

Probes ==
  { << 122, 0, -122 >>, << 120, 3, -123 >>, << 0, 0, 0 >> }

Thresholds == { DefaultThreshold, 0, 2 * Scale }

\* grayscale frames (cv2.cvtColor(frame, COLOR_BGR2GRAY)), two pixels each
Frames ==
  { << 49, 50 >>, << 50, 50 >>, << 60, 70 >>, << 200, 200 >>,
    << 200, 201 >> }

(***************************************************************************)
(* Arithmetic                                                              *)
(***************************************************************************)
Abs(x) == IF x < 0 THEN -x ELSE x

Min2(a, b) == IF a < b THEN a ELSE b

Max2(a, b) == IF a > b THEN a ELSE b

\* s[lo] + ... + s[hi], by halves
RECURSIVE SumRange(_, _, _)
SumRange(s, lo, hi) ==
  IF lo > hi THEN 0
  ELSE IF lo = hi THEN s[lo]
  ELSE LET mid == (lo + hi) \div 2
       IN  SumRange(s, lo, mid) + SumRange(s, mid + 1, hi)

\* np.sum(s)
SumSeq(s) == SumRange(s, 1, Len(s))

\* the one element of a set of one element; Only({ e : x \in {v} }) is e
\* with x the value of v, worked out once whatever the number of uses of x
Only(S) == CHOOSE y \in S : TRUE

\* the largest r in lo..hi with r * r <= n, by bisection
RECURSIVE ISqrtIn(_, _, _)
ISqrtIn(n, lo, hi) ==
  IF lo >= hi THEN lo
  ELSE Only({ IF mid * mid <= n THEN ISqrtIn(n, mid, hi)
                               ELSE ISqrtIn(n, lo, mid - 1) :
                mid \in { (lo + hi + 1) \div 2 } })

\* floor of the square root (46340 is the largest root of a 32-bit integer)
ISqrt(n) == Only({ ISqrtIn(k, 0, Min2(k, 46340)) : k \in {n} })

\* element-wise a - b
VecSub(a, b) == [i \in 1..Len(a) |-> a[i] - b[i]]

Dot(a, b) == SumSeq([i \in 1..Len(a) |-> a[i] * b[i]])

\* np.linalg.norm(v)
Norm(v) == ISqrt(Dot(v, v))

\* np.mean(v)
MeanOf(v) == SumSeq(v) \div Len(v)

\* np.std(v)
StdOf(v) ==
  LET m == MeanOf(v)
  IN  ISqrt(SumSeq([i \in 1..Len(v) |-> (v[i] - m) * (v[i] - m)]) \div Len(v))

\* (v - np.mean(v)) / (np.std(v) + 1e-10); 1e-10 is below the resolution, so
\* it only matters for a constant vector, where it makes the quotient 0
Normalize(v) ==
  LET m == MeanOf(v)
      s == StdOf(v)
      d == IF s = 0 THEN 1 ELSE s
  IN  [i \in 1..Len(v) |-> ((v[i] - m) * Scale) \div d]

\* np.mean(np.array(encodings), axis=0)
MeanAxis0(encs) ==
  [i \in 1..Len(encs[1]) |->
     SumSeq([k \in 1..Len(encs) |-> encs[k][i]]) \div Len(encs)]

(***************************************************************************)
(* Persistence format                                                      *)
(***************************************************************************)
\* A text is a sequence of characters.  A number is written as the decimal
\* digits of its fixed-point value, with a leading "-" when negative (the
\* counterpart of float.__repr__, the shortest decimal text that reads back
\* as the same float).
DigitChars == << "0", "1", "2", "3", "4", "5", "6", "7", "8", "9" >>

RECURSIVE Digits(_)
Digits(n) ==
  IF n < 10 THEN << DigitChars[n + 1] >>
  ELSE Digits(n \div 10) \o << DigitChars[(n % 10) + 1] >>

\* format_number with the sign lost
format_number_unsigned(x) == Digits(Abs(x))

\* float.__repr__(x)
format_number(x) ==
  (IF x < 0 THEN << "-" >> ELSE << >>) \o Digits(Abs(x))

\* ", ".join of the numbers of e from position i on
RECURSIVE join_numbers(_, _)
join_numbers(e, i) ==
  IF i > Len(e) THEN << >>
  ELSE IF i = Len(e) THEN format_number(e[i])
  ELSE format_number(e[i]) \o << "," >> \o join_numbers(e, i + 1)

\* json.dumps(face_encoding): the text of the ordered number list
json_dumps(e) == << "[" >> \o join_numbers(e, 1) \o << "]" >>

\* the value of each digit character
DigitValues ==
  [ c \in {"0", "1", "2", "3", "4", "5", "6", "7", "8", "9"} |->
      CHOOSE d \in 0..9 : DigitChars[d + 1] = c ]

IsDigit(c) == c \in DOMAIN DigitValues

DigitValue(c) == DigitValues[c]

\* the scanner of json.loads from character i on: acc the numbers read so
\* far, neg / val / has the sign, the value and the presence of the number
\* being read
RECURSIVE parse_numbers(_, _, _, _, _, _)
parse_numbers(t, i, acc, neg, val, has) ==
  IF i > Len(t) THEN acc
  ELSE IF t[i] = "-" THEN parse_numbers(t, i + 1, acc, TRUE, val, has)
  ELSE IF IsDigit(t[i])
    THEN parse_numbers(t, i + 1, acc, neg, 10 * val + DigitValue(t[i]), TRUE)
  ELSE IF t[i] \in {",", "]"} /\ has
    THEN parse_numbers(t, i + 1,
                       Append(acc, IF neg THEN -val ELSE val), FALSE, 0, FALSE)
  ELSE parse_numbers(t, i + 1, acc, neg, val, has)

\* json.loads(text)
json_loads(t) == parse_numbers(t, 1, << >>, FALSE, 0, FALSE)


(***************************************************************************)
(* RobustFaceEncoder                                                       *)
(***************************************************************************)
\* float('nan'): a value outside every range, equal to no distance
NaN == -1000000

\* np.corrcoef(encoding1, encoding2)[0, 1], with the NaN of a constant
\* vector already replaced by 0
Correlation(encoding1, encoding2) ==
  LET c1 == [i \in 1..Len(encoding1) |-> encoding1[i] - MeanOf(encoding1)]
      c2 == [i \in 1..Len(encoding2) |-> encoding2[i] - MeanOf(encoding2)]
      den == Norm(c1) * Norm(c2)
  IN  IF den = 0 THEN 0
      ELSE Max2(-Scale, Min2(Scale, (Dot(c1, c2) * Scale) \div den))

\* norm_product with the first norm taken twice
norm_of_first_squared(encoding1, encoding2) ==
  Norm(encoding1) * Norm(encoding1)

\* norm1 * norm2
norm_product(encoding1, encoding2) == Norm(encoding1) * Norm(encoding2)

\* compare_encodings(encoding1, encoding2)
compare_encodings(encoding1, encoding2) ==
  IF Len(encoding1) # Len(encoding2)
    THEN \* the subtraction or np.dot raises ValueError: return 1.0
         Scale
  ELSE IF Len(encoding1) = 0
    THEN \* 0.0 / np.sqrt(0) is nan, and np.clip leaves nan as it is
         NaN
    ELSE
      LET n == Len(encoding1)
          diff == VecSub(encoding1, encoding2)
          euclidean_dist == (Norm(diff) * Scale) \div ISqrt(n * Scale * Scale)
          norms == norm_product(encoding1, encoding2)
          cosine_similarity ==
            IF norms = 0 THEN 0
            ELSE Max2(-Scale,
                      Min2(Scale, (Dot(encoding1, encoding2) * Scale) \div norms))
          cosine_distance == Scale - cosine_similarity
          manhattan_dist ==
            SumSeq([i \in 1..n |-> Abs(diff[i])]) \div n
          correlation_distance ==
            Scale - Abs(Correlation(encoding1, encoding2))
          combined_distance ==
            (40 * euclidean_dist + 30 * cosine_distance
               + 20 * manhattan_dist + 10 * correlation_distance) \div 100
      IN  Min2(Max2(combined_distance, 0), 2 * Scale) \div 2

\* self.encoding_dim
encoding_dim == 128

\* the numbers of measurements extract_facial_features takes, group by group:
\* LBP bins, Hu moments, gradient bins, Gabor responses, region statistics,
\* eye statistics, spectral statistics
LbpCount == 32

HuCount == 7

GradCount == 16

GaborCount == 8

RegionStatCount == 12

EyeCount == 3

FftCount == 8

\* create_encoding refuses an image with a side below this
MinEncodingSide == 64

\* encode_face_from_image refuses a face region with a side below this
MinRegionSide == 32

\* [v] * n
Repeat(v, n) == [i \in 1..n |-> v]

\* features[:n]
Take(v, n) == SubSeq(v, 1, Min2(n, Len(v)))

\* extract_facial_features with the eye summary left out when no eye is
\* detected
extract_facial_features_eyes_optional(face_image) ==
  LET c == face_image.content
      measured ==
        Repeat(c.lbp, LbpCount) \o Repeat(c.hu, HuCount)
          \o Repeat(c.grad, GradCount) \o Repeat(c.gabor, GaborCount)
          \o Repeat(c.stats, RegionStatCount)
          \o (IF c.eyes = 0 THEN << >> ELSE Repeat(c.eyes, EyeCount))
          \o Repeat(c.fft, FftCount)
  IN  measured \o Repeat(0, encoding_dim - Len(measured))

\* extract_facial_features(face_image).  The image is resized to 128 x 128
\* whatever its size; its content is represented by one level per group of
\* measurements (face_image.content), every measurement of a group taking
\* the level of the group.
extract_facial_features(face_image) ==
  LET c == face_image.content
      measured ==
        Repeat(c.lbp, LbpCount) \o Repeat(c.hu, HuCount)
          \o Repeat(c.grad, GradCount) \o Repeat(c.gabor, GaborCount)
          \o Repeat(c.stats, RegionStatCount) \o Repeat(c.eyes, EyeCount)
      current_len == Len(measured)
      spectral ==
        IF current_len < encoding_dim
          THEN Take(Repeat(c.fft, FftCount), encoding_dim - current_len)
          ELSE << >>
      features == Take(measured \o spectral, encoding_dim)
  IN  IF Len(features) < encoding_dim
        THEN features \o Repeat(0, encoding_dim - Len(features))
        ELSE features

\* create_encoding(face_image): the encoding, or None.  face_image.valid =
\* FALSE is an argument on which a statement of the body raises (None, an
\* array cv2 cannot resize); the except clause turns that into None.
create_encoding(face_image) ==
  IF ~face_image.valid THEN None
  ELSE IF face_image.h < MinEncodingSide \/ face_image.w < MinEncodingSide
    THEN None
  ELSE Normalize(extract_facial_features(face_image))

\* detect_faces preferring the most permissive configuration that detects
\* any face
RECURSIVE detect_faces_permissive(_, _)
detect_faces_permissive(detections, i) ==
  IF i > Len(detections) THEN << >>
  ELSE LET later == detect_faces_permissive(detections, i + 1)
       IN  IF Len(later) > 0 THEN later
           ELSE IF detections[i].error THEN << >>
           ELSE detections[i].faces

\* the detection_configs loop: the faces of the first configuration, from
\* configuration i on, that detects any; a configuration whose
\* detectMultiScale raises cv2.error is skipped
RECURSIVE detect_faces(_, _)
detect_faces(detections, i) ==
  IF i > Len(detections) THEN << >>
  ELSE IF detections[i].error THEN detect_faces(detections, i + 1)
  ELSE IF Len(detections[i].faces) > 0 THEN detections[i].faces
  ELSE detect_faces(detections, i + 1)

\* 0.01 <= area_ratio <= 0.8 and 0.7 <= aspect_ratio <= 1.4
face_quality_ok(face, img_area) ==
  /\ 100 * face.w * face.h >= img_area
  /\ 10 * face.w * face.h <= 8 * img_area
  /\ 10 * face.w >= 7 * face.h
  /\ 10 * face.w <= 14 * face.h

\* valid_faces
RECURSIVE valid_faces_of(_, _)
valid_faces_of(faces, img_area) ==
  IF faces = << >> THEN << >>
  ELSE IF face_quality_ok(Head(faces), img_area)
    THEN << Head(faces) >> \o valid_faces_of(Tail(faces), img_area)
    ELSE valid_faces_of(Tail(faces), img_area)

\* max([f[4] for f in valid_faces])
RECURSIVE MaxArea(_)
MaxArea(faces) ==
  IF faces = << >> THEN 0
  ELSE Max2(Head(faces).w * Head(faces).h, MaxArea(Tail(faces)))

\* combined_score = 0.6 * area_score + 0.4 * center_score
combined_score(face, valid_faces, image) ==
  LET center_x == image.w \div 2
      center_y == image.h \div 2
      dx == (face.x + face.w \div 2) - center_x
      dy == (face.y + face.h \div 2) - center_y
      center_dist == ISqrt((dx * dx + dy * dy) * Scale * Scale)
      max_dist == ISqrt((center_x * center_x + center_y * center_y)
                          * Scale * Scale)
      center_score == Scale - ((center_dist * Scale) \div max_dist)
      area_score == (face.w * face.h * Scale) \div MaxArea(valid_faces)
  IN  (6 * area_score + 4 * center_score) \div 10

\* best_face_scan with a face of equal score replacing the best so far
RECURSIVE best_face_scan_last(_, _, _, _, _)
best_face_scan_last(valid_faces, image, i, best_face, best_score) ==
  IF i > Len(valid_faces) THEN best_face
  ELSE LET score == combined_score(valid_faces[i], valid_faces, image)
       IN  IF score >= best_score
             THEN best_face_scan_last(valid_faces, image, i + 1, i, score)
             ELSE best_face_scan_last(valid_faces, image, i + 1, best_face,
                                      best_score)

\* the loop that selects best_face: the index in valid_faces of the first
\* face with the highest score, 0 when there is none
RECURSIVE best_face_scan(_, _, _, _, _)
best_face_scan(valid_faces, image, i, best_face, best_score) ==
  IF i > Len(valid_faces) THEN best_face
  ELSE LET score == combined_score(valid_faces[i], valid_faces, image)
       IN  IF score > best_score
             THEN best_face_scan(valid_faces, image, i + 1, i, score)
             ELSE best_face_scan(valid_faces, image, i + 1, best_face,
                                 best_score)

\* face_region = image[y1:y2, x1:x2] with the 15% margin
face_region_of(face, image) ==
  LET margin_x == (face.w * 15) \div 100
      margin_y == (face.h * 15) \div 100
      x1 == Max2(0, face.x - margin_x)
      y1 == Max2(0, face.y - margin_y)
      x2 == Min2(image.w, face.x + face.w + margin_x)
      y2 == Min2(image.h, face.y + face.h + margin_y)
  IN  [ h |-> Max2(0, y2 - y1), w |-> Max2(0, x2 - x1),
        x1 |-> x1, y1 |-> y1, x2 |-> x2, y2 |-> y2,
        valid |-> TRUE, content |-> image.content ]

\* region too small for encode_face_from_image
region_too_small(face_region) ==
  face_region.h < MinRegionSide \/ face_region.w < MinRegionSide

\* the face_region of a call that returned before extracting one
NoRegion ==
  [ h |-> 0, w |-> 0, x1 |-> 0, y1 |-> 0, x2 |-> 0, y2 |-> 0,
    valid |-> FALSE,
    content |-> [lbp |-> 0, hu |-> 0, grad |-> 0, gabor |-> 0, stats |-> 0,
                 eyes |-> 0, fft |-> 0] ]

\* the body of encode_face_from_image(image): what it returns, the faces of
\* the detection loop, those that passed the filter, the index among them
\* of the selected one, whether it extracted a face region, and the region.  image.valid = FALSE is an
\* argument on which a statement of the body raises; the except clause
\* turns that into None.
encode_face_steps(image) ==
  LET nothing == [returned |-> None, faces |-> << >>, valid_faces |-> << >>,
                  best_face |-> 0, extracted |-> FALSE,
                  face_region |-> NoRegion]
  IN  IF ~image.valid THEN nothing
      ELSE
        LET faces == detect_faces(image.detections, 1)
            valid_faces == valid_faces_of(faces, image.h * image.w)
        IN  IF Len(faces) = 0 THEN nothing
            ELSE IF Len(valid_faces) = 0
              THEN [nothing EXCEPT !.faces = faces]
            ELSE
              LET best_face ==
                    best_face_scan(valid_faces, image, 1, 0, -Scale)
                  face_region ==
                    face_region_of(valid_faces[best_face], image)
                  located == [nothing EXCEPT
                                !.faces = faces, !.valid_faces = valid_faces,
                                !.best_face = best_face, !.extracted = TRUE,
                                !.face_region = face_region]
              IN  IF region_too_small(face_region)
                    THEN located
                    ELSE [located EXCEPT
                            !.returned = create_encoding(face_region)]

\* encode_face_from_image(image): the encoding, or None
encode_face_from_image(image) == encode_face_steps(image).returned

(***************************************************************************)
(* State                                                                   *)
(***************************************************************************)
VARIABLES
  \* DualAuthDatabase: table users, user id -> row
  users,
  \* DualAuthDatabase: table user_biometrics, rows in primary-key order
  user_biometrics,
  \* the dict returned by the last authenticate_biometric call (None before)
  auth_result,
  \* what the last authenticate_biometric call did: its arguments, the rows
  \* it fetched and the distances it computed, in order
  auth_call,
  \* BiometricSetupWindow fields
  user_id, camera_active, registering, samples_captured,
  collected_encodings, previous_frame,
  \* state of the three buttons; cancel_btn also carries its command
  start_btn, start_registration_btn, cancel_btn,
  \* "open", or "destroyed" after root.destroy()
  root,
  \* capture_sample callbacks queued with root.after and not yet run
  pending,
  \* _auto_close_success queued with root.after
  auto_close_pending,
  \* record of the last capture_sample invocation
  attempt,
  \* the encodings appended since the last start_registration
  session_encodings,
  \* the encodings handed to register_face_biometric by the window, in order
  emitted,
  \* the last call of a core operation made on its own: its name, its
  \* arguments, the value it returned and the exception that escaped it
  op,
  \* register_face_biometric calls in progress, caller -> position and locals
  callers,
  \* the register_face_biometric calls that returned, in return order, each
  \* with its arguments and whether it returned success
  completed,
  \* the clock read by datetime.now() and by NOW(), in minutes
  now,
  \* the last login call (authenticate_user or authenticate_biometric with
  \* its bookkeeping): its arguments, the time it ran at, table users as it
  \* found it and the dict it returned
  login,
  \* LoginWindow and the DualAuthSystem fields it uses: flags, camera,
  \* buttons, the verification threads running, the callbacks queued with
  \* root.after, and the user handed to start_main_application
  login_window

vars ==
  << users, user_biometrics, auth_result, auth_call, user_id, camera_active,
     registering, samples_captured, collected_encodings, previous_frame,
     start_btn, start_registration_btn, cancel_btn, root, pending,
     auto_close_pending, attempt, session_encodings, emitted, op, callers,
     completed, now, login, login_window >>

NORMAL == "normal"

DISABLED == "disabled"

(***************************************************************************)
(* DualAuthDatabase                                                        *)
(***************************************************************************)
\* position of the first row of user_id in the table, 0 when there is none
RECURSIVE RowOf(_, _, _)
RowOf(rows, uid, i) ==
  IF i > Len(rows) THEN 0
  ELSE IF rows[i].user_id = uid THEN i
  ELSE RowOf(rows, uid, i + 1)

\* INSERT INTO user_biometrics: the primary key is a fresh uuid4, so the row
\* lands at any position pos of the primary-key order
InsertRow(rows, pos, row) ==
  SubSeq(rows, 1, pos - 1) \o << row >> \o SubSeq(rows, pos, Len(rows))

\* UPDATE user_biometrics SET face_encoding = ... WHERE user_id = ...
\* A row carries, besides its columns, the list its text was written from
\* (source), which the program does not store.
UpdateRows(rows, uid, text, source) ==
  [i \in 1..Len(rows) |->
     IF rows[i].user_id = uid
       THEN [rows[i] EXCEPT !.face_encoding = text, !.source = source]
       ELSE rows[i]]

\* register_face_biometric(user_id, face_encoding); db_ok = FALSE is a
\* connection that cannot be opened.  Returns the tables and the result.
register_face_biometric(tbl_users, tbl_bio, uid, face_encoding, pos, db_ok) ==
  IF ~db_ok
    THEN [users |-> tbl_users, user_biometrics |-> tbl_bio,
          result |-> [success |-> FALSE, error |-> "Error registrando biometria"]]
    ELSE
      LET existing == RowOf(tbl_bio, uid, 1)
          encoding_json == json_dumps(face_encoding)
          bio == IF existing # 0
                   THEN UpdateRows(tbl_bio, uid, encoding_json, face_encoding)
                   ELSE InsertRow(tbl_bio, pos,
                                  [user_id |-> uid,
                                   face_encoding |-> encoding_json,
                                   is_active |-> TRUE,
                                   source |-> face_encoding])
      IN  [users |-> [tbl_users EXCEPT ![uid].face_registered = TRUE,
                                       ![uid].biometric_enabled = TRUE],
           user_biometrics |-> bio,
           result |-> [success |-> TRUE,
                       message |-> "Biometria registrada exitosamente"]]

\* SELECT ... FROM user_biometrics b JOIN users u ON b.user_id = u.id
\* WHERE b.is_active AND u.is_active AND u.biometric_enabled
RECURSIVE SelectBiometricUsers(_, _)
SelectBiometricUsers(tbl_users, rows) ==
  IF rows = << >> THEN << >>
  ELSE LET b == Head(rows)
           rest == SelectBiometricUsers(tbl_users, Tail(rows))
       IN  IF b.is_active /\ tbl_users[b.user_id].is_active
              /\ tbl_users[b.user_id].biometric_enabled
             THEN << b >> \o rest
             ELSE rest

\* float('inf')
Inf == -1

\* distance = np.linalg.norm(np.array(face_encoding) - np.array(stored_encoding))
match_distance(face_encoding, stored_encoding) ==
  Norm(VecSub(face_encoding, stored_encoding))

\* is_better with ties going to the later row
is_better_or_equal(distance, best_distance) ==
  best_distance = Inf \/ distance <= best_distance

\* if distance < best_distance
is_better(distance, best_distance) ==
  best_distance = Inf \/ distance < best_distance

\* the loop over biometric_users from row i on; best_match is a row index,
\* computed the distances computed so far
RECURSIVE best_match_scan(_, _, _, _, _, _)
best_match_scan(face_encoding, rows, i, best_match, best_distance, computed) ==
  IF i > Len(rows)
    THEN [best_match |-> best_match, best_distance |-> best_distance,
          distances |-> computed]
    ELSE
      LET stored_encoding == json_loads(rows[i].face_encoding)
          distance == match_distance(face_encoding, stored_encoding)
      IN  IF is_better(distance, best_distance)
            THEN best_match_scan(face_encoding, rows, i + 1, i, distance,
                                 Append(computed, distance))
            ELSE best_match_scan(face_encoding, rows, i + 1, best_match,
                                 best_distance, Append(computed, distance))

\* if best_match and best_distance < threshold
within_threshold(best_match, best_distance, threshold) ==
  best_match # 0 /\ best_distance # Inf /\ best_distance < threshold

\* confidence_of without the complement
confidence_as_ratio(best_distance, threshold) ==
  (best_distance * Scale) \div threshold

\* "confidence": 1.0 - (best_distance / threshold)
confidence_of(best_distance, threshold) ==
  Scale - ((best_distance * Scale) \div threshold)

\* no_biometric_users with the empty case not told apart
no_biometric_users_unchecked(biometric_users) == FALSE

\* if not biometric_users
no_biometric_users(biometric_users) == biometric_users = << >>

\* authenticate_biometric(face_encoding, threshold) on the fetched rows: the
\* returned dict and the distances it computed, in order.  The statistics it
\* writes on success (last_verification, verification_count, last_login,
\* auth_logs) are read by no decision and are not modelled.
authenticate_biometric(biometric_users, face_encoding, threshold) ==
  IF no_biometric_users(biometric_users)
    THEN [result |-> [success |-> FALSE,
                      error |-> "No hay usuarios con biometria registrada"],
          distances |-> << >>]
    ELSE
      LET best == best_match_scan(face_encoding, biometric_users, 1, 0, Inf,
                                  << >>)
      IN  IF within_threshold(best.best_match, best.best_distance, threshold)
            THEN [result |->
                    [success |-> TRUE,
                     user |-> biometric_users[best.best_match].user_id,
                     confidence |->
                       confidence_of(best.best_distance, threshold)],
                  distances |-> best.distances]
            ELSE [result |->
                    [success |-> FALSE,
                     error |-> "No se pudo verificar la identidad biometrica"],
                  distances |-> best.distances]

\* no exception left the call
NoException == "none"

\* a stored encoding the probe cannot be subtracted from: arrays of different
\* lengths (neither of length 1) make the subtraction raise ValueError
RECURSIVE shape_mismatch(_, _)
shape_mismatch(face_encoding, rows) ==
  /\ rows # << >>
  /\ \/ Len(json_loads(Head(rows).face_encoding)) # Len(face_encoding)
     \/ shape_mismatch(face_encoding, Tail(rows))

\* authenticate_biometric(face_encoding, threshold) as its caller sees it:
\* the value returned and the exception that left it.  db_ok = FALSE is a
\* database that cannot be reached: connect() leaves self.connection None,
\* self.connection.cursor raises before cursor is bound, the except clause
\* prepares its error dict, and `if cursor` in the finally clause raises
\* UnboundLocalError, which replaces the return.
authenticate_biometric_call(tbl_users, tbl_bio, face_encoding, threshold, db_ok) ==
  IF ~db_ok
    THEN [returned |-> None, raised |-> "UnboundLocalError"]
    ELSE
      LET biometric_users == SelectBiometricUsers(tbl_users, tbl_bio)
      IN  IF shape_mismatch(face_encoding, biometric_users)
            THEN [returned |->
                    [success |-> FALSE,
                     error |-> "Error en autenticacion biometrica"],
                  raised |-> NoException]
            ELSE [returned |->
                    authenticate_biometric(biometric_users, face_encoding,
                                           threshold).result,
                  raised |-> NoException]

(***************************************************************************)
(* DualAuthDatabase: password login and lockout                            *)
(***************************************************************************)
\* the NULL of a TIMESTAMP column; times are minutes, from 0
NULL == -1

\* UPDATE users SET locked_until = ... WHERE ... login_attempts >= 5
LockThreshold == 5

\* DATE_ADD(NOW(), INTERVAL 15 MINUTE)
LockMinutes == 15

\* the passwords typed at login
Passwords == {"p1", "p2"}

\* the password each account was registered with
PasswordOf == [u \in Users |-> IF u = "u2" THEN "p2" ELSE "p1"]

\* bcrypt.hashpw(password, salt): the salt, which checkpw reads back from
\* the hash, is left out
hash_password(password) == << "bcrypt", password >>

\* bcrypt.checkpw(password, hashed)
verify_password(password, hashed) == hash_password(password) = hashed

\* the row INSERTed by register_user, the other columns at their defaults of
\* CREATE TABLE users; an account's email is its id
NewAccount(u) ==
  [ password_hash |-> hash_password(PasswordOf[u]), last_login |-> NULL,
    is_active |-> TRUE, face_registered |-> FALSE,
    biometric_enabled |-> FALSE, login_attempts |-> 0,
    locked_until |-> NULL ]

\* increment_login_attempts(user_id) at time t, one counter less eager: the
\* lock is placed when the counter has passed the threshold
increment_login_attempts_late(tbl_users, uid, t) ==
  LET counted == [tbl_users EXCEPT ![uid].login_attempts = @ + 1]
  IN  IF counted[uid].login_attempts > LockThreshold
        THEN [counted EXCEPT ![uid].locked_until = t + LockMinutes]
        ELSE counted

\* increment_login_attempts(user_id) at time t: the two UPDATE statements
increment_login_attempts(tbl_users, uid, t) ==
  LET counted == [tbl_users EXCEPT ![uid].login_attempts = @ + 1]
  IN  IF counted[uid].login_attempts >= LockThreshold
        THEN [counted EXCEPT ![uid].locked_until = t + LockMinutes]
        ELSE counted

\* reset_login_attempts(user_id)
reset_login_attempts(tbl_users, uid) ==
  [tbl_users EXCEPT ![uid].login_attempts = 0, ![uid].locked_until = NULL]

\* update_last_login(user_id) that also lifts the lock
update_last_login_unlocking(tbl_users, uid, t) ==
  [tbl_users EXCEPT ![uid].last_login = t, ![uid].locked_until = NULL]

\* update_last_login(user_id) at time t
update_last_login(tbl_users, uid, t) ==
  [tbl_users EXCEPT ![uid].last_login = t]

\* if user['locked_until'] and datetime.now() < user['locked_until']
is_locked(user, t) == user.locked_until # NULL /\ t < user.locked_until

CredencialesInvalidas == [success |-> FALSE, error |-> "Credenciales invalidas"]

CuentaBloqueada ==
  [success |-> FALSE, error |-> "Cuenta temporalmente bloqueada"]

CuentaDesactivada == [success |-> FALSE, error |-> "Cuenta desactivada"]

\* authenticate_user(email, password) where a lock that has run out gives
\* the account a fresh allowance of attempts
authenticate_user_fresh_allowance(tbl_users, email, password, t) ==
  IF email \notin DOMAIN tbl_users
    THEN [users |-> tbl_users, result |-> CredencialesInvalidas]
    ELSE
      LET user == tbl_users[email]
          expired == user.locked_until # NULL /\ ~is_locked(user, t)
          tbl == IF expired THEN reset_login_attempts(tbl_users, email)
                 ELSE tbl_users
      IN  IF is_locked(user, t)
            THEN [users |-> tbl_users, result |-> CuentaBloqueada]
          ELSE IF ~user.is_active
            THEN [users |-> tbl_users, result |-> CuentaDesactivada]
          ELSE IF ~verify_password(password, user.password_hash)
            THEN [users |-> increment_login_attempts(tbl, email, t),
                  result |-> CredencialesInvalidas]
          ELSE [users |->
                  update_last_login(reset_login_attempts(tbl_users, email),
                                    email, t),
                result |-> [success |-> TRUE, user |-> email]]

\* authenticate_user(email, password) at time t: table users after the call
\* and the dict returned
authenticate_user(tbl_users, email, password, t) ==
  IF email \notin DOMAIN tbl_users
    THEN [users |-> tbl_users, result |-> CredencialesInvalidas]
    ELSE
      LET user == tbl_users[email]
      IN  IF is_locked(user, t)
            THEN [users |-> tbl_users, result |-> CuentaBloqueada]
          ELSE IF ~user.is_active
            THEN [users |-> tbl_users, result |-> CuentaDesactivada]
          ELSE IF ~verify_password(password, user.password_hash)
            THEN [users |-> increment_login_attempts(tbl_users, email, t),
                  result |-> CredencialesInvalidas]
          ELSE [users |->
                  update_last_login(reset_login_attempts(tbl_users, email),
                                    email, t),
                result |-> [success |-> TRUE, user |-> email]]

\* what authenticate_biometric writes to table users once it has its result:
\* update_last_login(user_id) of the matched account, on success only
biometric_bookkeeping(tbl_users, returned, t) ==
  IF returned.success THEN update_last_login(tbl_users, returned.user, t)
  ELSE tbl_users

(***************************************************************************)
(* BiometricSetupWindow                                                    *)
(***************************************************************************)
\* the fields the window's handlers read and write, as one value
Win ==
  [ users |-> users, user_biometrics |-> user_biometrics,
    camera_active |-> camera_active, registering |-> registering,
    samples_captured |-> samples_captured,
    collected_encodings |-> collected_encodings,
    previous_frame |-> previous_frame,
    start_btn |-> start_btn,
    start_registration_btn |-> start_registration_btn,
    cancel_btn |-> cancel_btn, pending |-> pending,
    auto_close_pending |-> auto_close_pending,
    session_encodings |-> session_encodings, emitted |-> emitted ]

\* the next state is the value s
Becomes(s) ==
  /\ users' = s.users
  /\ user_biometrics' = s.user_biometrics
  /\ camera_active' = s.camera_active
  /\ registering' = s.registering
  /\ samples_captured' = s.samples_captured
  /\ collected_encodings' = s.collected_encodings
  /\ previous_frame' = s.previous_frame
  /\ start_btn' = s.start_btn
  /\ start_registration_btn' = s.start_registration_btn
  /\ cancel_btn' = s.cancel_btn
  /\ pending' = s.pending
  /\ auto_close_pending' = s.auto_close_pending
  /\ session_encodings' = s.session_encodings
  /\ emitted' = s.emitted

\* np.mean(gray)
MeanPix(gray) == (SumSeq(gray) * Scale) \div Len(gray)

\* np.mean(cv2.absdiff(gray, previous_frame))
Movement(gray, prev) ==
  (SumSeq([i \in 1..Len(gray) |-> Abs(gray[i] - prev[i])]) * Scale)
     \div Len(gray)

\* too_dark with the bound itself rejected
too_dark_inclusive(brightness) == brightness <= BrightnessMin * Scale

\* if brightness < 50
too_dark(brightness) == brightness < BrightnessMin * Scale

\* elif brightness > 200
too_bright(brightness) == brightness > BrightnessMax * Scale

\* excess_motion with a movement of exactly the bound rejected
excess_motion_inclusive(gray, prev) ==
  prev # None /\ Movement(gray, prev) >= MotionMax * Scale

\* if hasattr(self, 'previous_frame'): ... if movement > 15
excess_motion(gray, prev) ==
  prev # None /\ Movement(gray, prev) > MotionMax * Scale

\* target_reached one sample early
target_reached_early(samples) == samples >= required_samples - 1

\* if self.samples_captured >= self.required_samples
target_reached(samples) == samples >= required_samples

\* schedule_capture with the callback not queued
schedule_nothing(s) == s

\* self.root.after(ms, self.capture_sample)
schedule_capture(s) == [s EXCEPT !.pending = @ + 1]

\* stop_registration()
stop_registration(s) ==
  [s EXCEPT !.registering = FALSE,
            !.start_registration_btn = NORMAL,
            !.cancel_btn = [@ EXCEPT !.command = "close_window"]]

\* complete_registration(final_encoding)
complete_registration(s, final_encoding, in) ==
  LET r == register_face_biometric(s.users, s.user_biometrics, user_id,
                                   final_encoding, in.pos, in.db_ok)
      s1 == [s EXCEPT !.users = r.users,
                      !.user_biometrics = r.user_biometrics,
                      !.emitted = Append(@, final_encoding)]
  IN  IF r.result.success
        THEN [s1 EXCEPT !.registering = FALSE,
                        !.camera_active = FALSE,
                        !.start_btn = DISABLED,
                        !.start_registration_btn = DISABLED,
                        !.cancel_btn = [@ EXCEPT !.state = DISABLED],
                        !.auto_close_pending = TRUE]
        ELSE stop_registration(s1)

\* averaged_encoding of complete_registration_with_average
averaged_encoding(encodings) ==
  Only({ Normalize(mean_encoding) : mean_encoding \in { MeanAxis0(encodings) } })

\* complete_registration_with_average()
complete_registration_with_average(s, in) ==
  IF s.collected_encodings = << >>
    THEN stop_registration(s)
    ELSE Only({ complete_registration(s, final_encoding, in) :
                  final_encoding \in
                    { averaged_encoding(s.collected_encodings) } })

\* reference_after with the old reference kept
reference_kept(prev, gray) == prev

\* the frame that is the motion reference after an attempt on frame gray
\* that got past the brightness gate
reference_after(prev, gray) == gray

\* if not self.registering or not self.camera_active: return
capture_refused(s) == ~s.registering \/ ~s.camera_active

\* encoding_valid with a None answer taken as a sample
encoding_always_valid(encoding) == TRUE

\* if encoding is not None
encoding_valid(encoding) == encoding # None

\* the body of capture_sample() on the input in = (ret, gray, encoding of
\* the frame or None, db_ok, pos): the state it leaves and what it did
capture_step(s, in) ==
  IF capture_refused(s)
    THEN [state |-> s, outcome |-> "not_registering", encoder_invoked |-> FALSE]
  ELSE IF ~in.ret
    THEN [state |-> schedule_capture(s), outcome |-> "read_failed",
          encoder_invoked |-> FALSE]
  ELSE IF too_dark(MeanPix(in.gray))
    THEN [state |-> schedule_capture(s), outcome |-> "too_dark",
          encoder_invoked |-> FALSE]
  ELSE IF too_bright(MeanPix(in.gray))
    THEN [state |-> schedule_capture(s), outcome |-> "too_bright",
          encoder_invoked |-> FALSE]
  ELSE IF excess_motion(in.gray, s.previous_frame)
    THEN [state |-> schedule_capture(
                      [s EXCEPT !.previous_frame = reference_after(@, in.gray)]),
          outcome |-> "excess_motion", encoder_invoked |-> FALSE]
  ELSE
    LET s1 == [s EXCEPT !.previous_frame = reference_after(@, in.gray)]
    IN  IF encoding_valid(in.encoding)
          THEN
            LET s2 == [s1 EXCEPT
                         !.samples_captured = @ + 1,
                         !.collected_encodings = Append(@, in.encoding),
                         !.session_encodings = Append(@, in.encoding)]
            IN  IF target_reached(s2.samples_captured)
                  THEN [state |-> complete_registration_with_average(s2, in),
                        outcome |-> "target_reached",
                        encoder_invoked |-> TRUE]
                  ELSE [state |-> schedule_capture(s2),
                        outcome |-> "accepted", encoder_invoked |-> TRUE]
          ELSE [state |-> schedule_capture(s1), outcome |-> "no_valid_face",
                encoder_invoked |-> TRUE]

\* the record of one capture_sample invocation that went from s to r.state;
\* had_reference and moved are facts about the frame and the reference the
\* invocation found: whether there was a reference, and whether the frame's
\* mean absolute difference to it is above the motion bound
attempt_log(s, in, r) ==
  [ outcome |-> r.outcome,
    frame |-> IF r.outcome \in {"not_registering", "read_failed"}
                THEN None ELSE in.gray,
    encoder_invoked |-> r.encoder_invoked,
    encoding |-> IF r.encoder_invoked THEN in.encoding ELSE None,
    samples_before |-> s.samples_captured,
    samples_after |-> r.state.samples_captured,
    collected_before |-> s.collected_encodings,
    collected_after |-> r.state.collected_encodings,
    had_reference |-> s.previous_frame # None,
    moved |-> /\ r.outcome \notin {"not_registering", "read_failed"}
              /\ s.previous_frame # None
              /\ Movement(in.gray, s.previous_frame) > MotionMax * Scale,
    previous_after |-> r.state.previous_frame,
    registering_after |-> r.state.registering,
    scheduled |-> r.state.pending - s.pending,
    handed |-> Len(r.state.emitted) - Len(s.emitted) ]

\* capture_sample() run from the state s
capture_sample(s, in) ==
  \E r \in { capture_step(s, in) } :
    /\ Becomes(r.state)
    /\ attempt' = attempt_log(s, in, r)

\* what one capture_sample invocation may meet: a failed camera read, or a
\* frame with the encoder's answer for it; and, for the sample that brings
\* the counter to the target, the database's answer
CaptureInputs(s) ==
  { [ret |-> FALSE, gray |-> None, encoding |-> None, db_ok |-> TRUE, pos |-> 1] }
  \cup
  { [ret |-> TRUE, gray |-> g, encoding |-> None, db_ok |-> TRUE, pos |-> 1] :
      g \in Frames }
  \cup
  { [ret |-> TRUE, gray |-> g, encoding |-> e, db_ok |-> ok, pos |-> p] :
      g \in Frames,
      e \in (IF Len(s.collected_encodings) < MaxCollected
               THEN SampleEncodings ELSE {}),
      ok \in (IF s.samples_captured + 1 >= required_samples
                THEN BOOLEAN ELSE {TRUE}),
      p \in (IF s.samples_captured + 1 >= required_samples
               THEN 1..(Len(s.user_biometrics) + 1) ELSE {1}) }


(***************************************************************************)
(* Initial states                                                          *)
(***************************************************************************)
NoAttempt ==
  [ outcome |-> "none", frame |-> None, encoder_invoked |-> FALSE,
    encoding |-> None,
    samples_before |-> 0, samples_after |-> 0,
    collected_before |-> << >>, collected_after |-> << >>,
    had_reference |-> FALSE, moved |-> FALSE,
    previous_after |-> None,
    registering_after |-> FALSE, scheduled |-> 0, handed |-> 0 ]

\* the threads that may be inside register_face_biometric at once
Callers == {"c1", "c2"}

NoOp == [ name |-> "none", raised |-> NoException ]

IdleCaller == [ pc |-> "idle" ]

NoAuthCall ==
  [ called |-> FALSE, face_encoding |-> None, threshold |-> 0,
    biometric_users |-> << >>, distances |-> << >> ]

\* LoginWindow.__init__ and create_biometric_tab, DualAuthSystem.__init__
NewLoginWindow ==
  [ camera_active |-> FALSE, camera |-> "none", detecting_face |-> FALSE,
    face_detected |-> FALSE, start_camera_btn |-> NORMAL,
    stop_camera_btn |-> DISABLED, biometric_login_btn |-> DISABLED,
    root |-> "open", current_user |-> "none", threads |-> << >>,
    callbacks |-> << >>, cleanups |-> << >>, started |-> 0,
    stopped_login |-> FALSE ]

\* no login call was made yet
NoLogin ==
  [ method |-> "none", email |-> "none", password |-> "none",
    face_encoding |-> None, threshold |-> 0, at |-> 0,
    before |-> [u \in Users |-> NewAccount(u)], returned |-> None ]

\* BiometricSetupWindow.__init__ and setup_ui, for the logged-in user
InitWindow ==
  /\ user_id = "u1"
  /\ camera_active = FALSE
  /\ registering = FALSE
  /\ samples_captured = 0
  /\ collected_encodings = << >>
  /\ previous_frame = None
  /\ start_btn = NORMAL
  /\ start_registration_btn = DISABLED
  /\ cancel_btn = [command |-> "close_window", state |-> NORMAL]
  /\ root = "open"
  /\ pending = 0
  /\ auto_close_pending = FALSE
  /\ attempt = NoAttempt
  /\ session_encodings = << >>
  /\ emitted = << >>
  /\ auth_result = None
  /\ auth_call = NoAuthCall
  /\ op = NoOp
  /\ now = 0
  /\ login = NoLogin
  /\ login_window = NewLoginWindow
  /\ callers = [c \in Callers |-> IdleCaller]
  /\ completed = << >>

\* the accounts exist (register_user), none has enrolled a face yet
Init ==
  /\ InitWindow
  /\ users = [u \in Users |-> NewAccount(u)]
  /\ user_biometrics = << >>

\* as Init, where the account u3 may have been deactivated (users.is_active)
InitMatch ==
  /\ InitWindow
  /\ \E active \in BOOLEAN :
       users = [u \in Users |->
                  [NewAccount(u) EXCEPT
                     !.is_active = (u # "u3" \/ active)]]
  /\ user_biometrics = << >>

(***************************************************************************)
(* Actions of the enrollment window                                        *)
(***************************************************************************)
dbvars == << users, user_biometrics >>

authvars == << auth_result, auth_call >>

corevars == << op, callers, completed >>

loginvars == << now, login, login_window >>

winvars ==
  << camera_active, registering, samples_captured, collected_encodings,
     previous_frame, start_btn, start_registration_btn, cancel_btn, pending,
     auto_close_pending, attempt, session_encodings, emitted >>

\* start_camera(), the command of start_btn
StartCamera ==
  /\ root = "open"
  /\ start_btn = NORMAL
  /\ \E opened \in BOOLEAN :
       IF ~opened
         THEN UNCHANGED vars
         ELSE /\ camera_active' = TRUE
              /\ start_btn' = DISABLED
              /\ start_registration_btn' = NORMAL
              /\ UNCHANGED << dbvars, authvars, user_id, loginvars,
                              registering,
                              samples_captured, collected_encodings,
                              previous_frame, cancel_btn, root, pending,
                              auto_close_pending, attempt, session_encodings,
                              emitted, corevars >>

\* start_registration(), the command of start_registration_btn, with the
\* first capture_sample() it calls
StartRegistration ==
  /\ root = "open"
  /\ start_registration_btn = NORMAL
  /\ pending < MaxPending
  /\ \E current_faces_detected \in BOOLEAN :
       IF ~camera_active \/ ~current_faces_detected
         THEN UNCHANGED vars
         ELSE
           LET s == [Win EXCEPT
                       !.registering = TRUE,
                       !.samples_captured = 0,
                       !.start_registration_btn = DISABLED,
                       !.cancel_btn = [@ EXCEPT !.command = "stop_registration"],
                       !.session_encodings = << >>]
           IN  /\ \E in \in CaptureInputs(s) : capture_sample(s, in)
               /\ UNCHANGED << authvars, user_id, loginvars, root, corevars >>

\* a queued capture_sample callback runs
CaptureSample ==
  /\ root = "open"
  /\ pending > 0
  /\ LET s == [Win EXCEPT !.pending = @ - 1]
     IN  \E in \in CaptureInputs(s) : capture_sample(s, in)
  /\ UNCHANGED << authvars, user_id, loginvars, root, corevars >>

\* the cancel button while its command is stop_registration
StopRegistration ==
  /\ root = "open"
  /\ cancel_btn.state = NORMAL
  /\ cancel_btn.command = "stop_registration"
  /\ Becomes(stop_registration(Win))
  /\ UNCHANGED << authvars, user_id, loginvars, root, attempt, corevars >>

\* close_window()
close_window ==
  /\ camera_active' = FALSE
  /\ root' = "destroyed"
  /\ UNCHANGED << dbvars, authvars, user_id, loginvars, registering,
                  samples_captured,
                  collected_encodings, previous_frame, start_btn,
                  start_registration_btn, cancel_btn, pending,
                  auto_close_pending, attempt, session_encodings, emitted,
                  corevars >>

\* the cancel button while its command is close_window
CloseWindow ==
  /\ root = "open"
  /\ cancel_btn.state = NORMAL
  /\ cancel_btn.command = "close_window"
  /\ close_window

\* _auto_close_success(), queued by complete_registration
AutoCloseSuccess ==
  /\ root = "open"
  /\ auto_close_pending
  /\ close_window

\* on_closing(), the WM_DELETE_WINDOW protocol, ends the Tk main loop
\* (root.quit()): no handler of the window runs after it, so it is a point
\* where a behaviour stops and not an action.

Next ==
  \/ StartCamera
  \/ StartRegistration
  \/ CaptureSample
  \/ StopRegistration
  \/ CloseWindow
  \/ AutoCloseSuccess

Spec == Init /\ [][Next]_vars

(***************************************************************************)
(* The enrollment window under the scheduling of the Tk main loop          *)
(***************************************************************************)
\* start_registration() pressed while the samples left over from earlier
\* sessions leave room for a whole session of the bounded list
StartRegistrationWithRoom ==
  /\ Len(collected_encodings) + required_samples <= MaxCollected
  /\ StartRegistration

\* the face in front of the camera is one person's: every frame the encoder
\* encodes gives the same encoding
OneFace ==
  attempt.encoding \in {None, << 122, 0, -122 >>}

\* a queued capture_sample callback runs on a clean frame: one that passes
\* both gates and that the encoder encodes
CleanCapture ==
  /\ CaptureSample
  /\ OneFace'
  /\ attempt'.outcome \in {"accepted", "target_reached"}

NextLive ==
  \/ StartCamera
  \/ StartRegistrationWithRoom /\ OneFace'
  \/ CaptureSample /\ OneFace'
  \/ StopRegistration
  \/ CloseWindow
  \/ AutoCloseSuccess

\* root.mainloop() runs every callback queued with root.after once its delay
\* has passed (weak fairness of CaptureSample and AutoCloseSuccess); clean
\* frames keep recurring (strong fairness of CleanCapture). The buttons are
\* the user's to press or not: no fairness.
LiveSpec ==
  /\ Init
  /\ [][NextLive]_vars
  /\ WF_vars(CaptureSample /\ OneFace')
  /\ WF_vars(AutoCloseSuccess)
  /\ SF_vars(CleanCapture)

(***************************************************************************)
(* Actions of the database layer                                           *)
(***************************************************************************)
\* DualAuthDatabase.register_face_biometric(uid, face_encoding)
RegisterFaceBiometric ==
  \E uid \in Users, face_encoding \in Templates,
     pos \in 1..(Len(user_biometrics) + 1), db_ok \in BOOLEAN :
    LET r == register_face_biometric(users, user_biometrics, uid,
                                     face_encoding, pos, db_ok)
    IN  /\ users' = r.users
        /\ user_biometrics' = r.user_biometrics
        /\ UNCHANGED << authvars, user_id, loginvars, root, winvars,
                        corevars >>

\* DualAuthDatabase.authenticate_biometric(face_encoding, threshold)
AuthenticateBiometric ==
  \E face_encoding \in Probes, threshold \in Thresholds :
    LET biometric_users == SelectBiometricUsers(users, user_biometrics)
        r == authenticate_biometric(biometric_users, face_encoding, threshold)
    IN  /\ auth_result' = r.result
        /\ auth_call' =
             [ called |-> TRUE, face_encoding |-> face_encoding,
               threshold |-> threshold, biometric_users |-> biometric_users,
               distances |-> r.distances ]
        /\ UNCHANGED << dbvars, user_id, loginvars, root, winvars,
                        corevars >>

NextMatch ==
  \/ RegisterFaceBiometric
  \/ AuthenticateBiometric

MatchSpec == InitMatch /\ [][NextMatch]_vars

(***************************************************************************)
(* The core operations called on their own                                 *)
(***************************************************************************)
\* image content, one level per group of measurements: a textured face, a
\* flat image (every pixel equal), synthetic noise
Contents ==
  { [lbp |-> 3, hu |-> -250, grad |-> 6, gabor |-> 180, stats |-> 260,
     eyes |-> 200, fft |-> 300],
    [lbp |-> 0, hu |-> 0, grad |-> 0, gabor |-> 0, stats |-> 0,
     eyes |-> 0, fft |-> 0],
    [lbp |-> 1, hu |-> 120, grad |-> 6, gabor |-> 90, stats |-> 130,
     eyes |-> 0, fft |-> 210] }

FaceContent == [lbp |-> 3, hu |-> -250, grad |-> 6, gabor |-> 180,
                stats |-> 260, eyes |-> 200, fft |-> 300]

RegionSides == {31, 32, 63, 64, 120}

\* the arguments of create_encoding: face regions, and something that is no
\* image
FaceImages ==
  { [h |-> h, w |-> w, valid |-> TRUE, content |-> c] :
      h \in RegionSides, w \in RegionSides, c \in Contents }
  \cup { [h |-> 0, w |-> 0, valid |-> FALSE, content |-> FaceContent] }

\* detectMultiScale found nothing / raised cv2.error / found faces
NoFaces == [error |-> FALSE, faces |-> << >>]

DetectError == [error |-> TRUE, faces |-> << >>]

Found(faces) == [error |-> FALSE, faces |-> faces]

Face(x, y, w, h) == [x |-> x, y |-> y, w |-> w, h |-> h]

\* what the four detection configurations answer on a frame, in order; a
\* configuration answers only faces of at least its minSize
DetectionResults ==
  { << Found(<< Face(60, 60, 80, 80) >>), Found(<< Face(60, 60, 80, 80) >>),
       Found(<< Face(60, 60, 80, 80) >>), Found(<< Face(60, 60, 80, 80) >>) >>,
    << NoFaces, NoFaces, Found(<< Face(80, 80, 40, 40) >>),
       Found(<< Face(80, 80, 40, 40) >>) >>,
    << NoFaces, NoFaces, NoFaces, Found(<< Face(85, 85, 30, 30) >>) >>,
    << NoFaces, NoFaces, NoFaces, NoFaces >>,
    << DetectError,
       Found(<< Face(0, 0, 56, 56), Face(70, 70, 60, 60) >>),
       NoFaces, NoFaces >>,
    << DetectError, DetectError, DetectError, DetectError >>,
    << Found(<< Face(10, 10, 180, 185) >>), NoFaces, NoFaces, NoFaces >>,
    << NoFaces, Found(<< Face(100, 20, 90, 60) >>), NoFaces, NoFaces >>,
    << NoFaces, Found(<< Face(100, 20, 90, 60) >>),
       Found(<< Face(60, 60, 80, 80) >>),
       Found(<< Face(60, 60, 80, 80), Face(85, 85, 30, 30) >>) >>,
    << Found(<< Face(20, 60, 80, 80), Face(100, 60, 80, 80) >>),
       NoFaces, NoFaces, NoFaces >>,
    << Found(<< Face(20, 20, 160, 160) >>), NoFaces, NoFaces, NoFaces >>,
    << Found(<< Face(51, 0, 98, 70), Face(130, 130, 60, 60) >>),
       NoFaces, NoFaces, NoFaces >> }

\* the arguments of encode_face_from_image: camera frames of 200 x 200
\* pixels, and something that is no image
Images ==
  { [h |-> 200, w |-> 200, valid |-> TRUE, detections |-> d, content |-> c] :
      d \in DetectionResults, c \in Contents }
  \cup { [h |-> 0, w |-> 0, valid |-> FALSE, detections |-> << >>,
          content |-> FaceContent] }

\* the arguments of compare_encodings
Encodings ==
  { << 122, 0, -122 >>, << -71, 141, -71 >>, << 120, 3, -123 >>,
    << 0, 0, 0 >>, << 50, 50, 50 >>, << -122, 0, 122 >>,
    << 61, 0, -61 >>, << 100, -100 >>, << >> }

\* the probes of authenticate_biometric: of the stored length, and shorter
CoreProbes == { << 122, 0, -122 >>, << 100, -100 >> }

\* as Init, where the account u1 may have enrolled a face already
InitCore ==
  /\ InitWindow
  /\ \E enrolled \in BOOLEAN :
       LET fresh == [u \in Users |-> NewAccount(u)]
           r == register_face_biometric(fresh, << >>, "u1",
                                        << 122, 0, -122 >>, 1, TRUE)
       IN  IF enrolled
             THEN users = r.users /\ user_biometrics = r.user_biometrics
             ELSE users = fresh /\ user_biometrics = << >>

noncore ==
  << dbvars, authvars, user_id, loginvars, root, winvars, callers,
     completed >>

\* RobustFaceEncoder.create_encoding(face_image)
CreateEncoding ==
  \E face_image \in FaceImages :
    /\ op' = [ name |-> "create_encoding", face_image |-> face_image,
               returned |-> create_encoding(face_image),
               raised |-> NoException ]
    /\ UNCHANGED noncore

\* RobustFaceEncoder.extract_facial_features(face_image)
ExtractFacialFeatures ==
  \E face_image \in FaceImages :
    /\ face_image.valid
    /\ op' = [ name |-> "extract_facial_features", face_image |-> face_image,
               returned |-> extract_facial_features(face_image),
               raised |-> NoException ]
    /\ UNCHANGED noncore

\* RobustFaceEncoder.encode_face_from_image(image)
EncodeFaceFromImage ==
  \E image \in Images :
    LET r == encode_face_steps(image)
    IN  /\ op' = [ name |-> "encode_face_from_image", image |-> image,
                   faces |-> r.faces, valid_faces |-> r.valid_faces,
                   best_face |-> r.best_face,
                   extracted |-> r.extracted, face_region |-> r.face_region,
                   returned |-> encode_face_from_image(image),
                   raised |-> NoException ]
        /\ UNCHANGED noncore

\* RobustFaceEncoder.compare_encodings(encoding1, encoding2)
CompareEncodings ==
  \E encoding1 \in Encodings, encoding2 \in Encodings :
    /\ op' = [ name |-> "compare_encodings", encoding1 |-> encoding1,
               encoding2 |-> encoding2,
               returned |-> compare_encodings(encoding1, encoding2),
               swapped |-> compare_encodings(encoding2, encoding1),
               raised |-> NoException ]
    /\ UNCHANGED noncore

\* DualAuthDatabase.authenticate_biometric(face_encoding, threshold), with a
\* database that may be out of reach
AuthenticateBiometricCall ==
  \E face_encoding \in CoreProbes, threshold \in Thresholds,
     db_ok \in BOOLEAN :
    LET r == authenticate_biometric_call(users, user_biometrics,
                                         face_encoding, threshold, db_ok)
    IN  /\ op' = [ name |-> "authenticate_biometric",
                   face_encoding |-> face_encoding, threshold |-> threshold,
                   db_ok |-> db_ok, returned |-> r.returned,
                   raised |-> r.raised ]
        /\ UNCHANGED noncore

NextCore ==
  \/ CreateEncoding
  \/ ExtractFacialFeatures
  \/ EncodeFaceFromImage
  \/ CompareEncodings
  \/ AuthenticateBiometricCall

CoreSpec == InitCore /\ [][NextCore]_vars

(***************************************************************************)
(* register_face_biometric, statement by statement                         *)
(*                                                                         *)
(* Every DualAuthDatabase opens its own connection with autocommit=True:   *)
(* each execute() is a transaction of its own, commit() and rollback()     *)
(* change nothing, and the statements of calls made from different         *)
(* processes interleave.                                                   *)
(***************************************************************************)
\* the accounts that enroll a face
RegUsers == {"u1", "u2"}

\* the calls in progress
InProgress == { c \in Callers : callers[c].pc # "idle" }

regother ==
  << authvars, user_id, loginvars, root, winvars, op >>

\* register_face_biometric(uid, face_encoding) is entered
RegisterEnter(c) ==
  /\ callers[c].pc = "idle"
  /\ Len(completed) + Cardinality(InProgress) < MaxCalls
  /\ \E uid \in RegUsers, face_encoding \in Templates :
       callers' = [callers EXCEPT
                     ![c] = [pc |-> "select", uid |-> uid,
                             face_encoding |-> face_encoding,
                             existing |-> FALSE]]
  /\ UNCHANGED << dbvars, completed, regother >>

\* SELECT id FROM user_biometrics WHERE user_id = %s; existing = fetchone()
RegisterSelect(c) ==
  /\ callers[c].pc = "select"
  /\ callers' = [callers EXCEPT
                   ![c].pc = "write",
                   ![c].existing =
                     RowOf(user_biometrics, callers[c].uid, 1) # 0]
  /\ UNCHANGED << dbvars, completed, regother >>

\* if existing: UPDATE user_biometrics ... else: INSERT INTO user_biometrics
RegisterWrite(c) ==
  /\ callers[c].pc = "write"
  /\ LET encoding_json == json_dumps(callers[c].face_encoding)
     IN  IF callers[c].existing
           THEN user_biometrics' =
                  UpdateRows(user_biometrics, callers[c].uid, encoding_json,
                             callers[c].face_encoding)
           ELSE \E pos \in 1..(Len(user_biometrics) + 1) :
                  user_biometrics' =
                    InsertRow(user_biometrics, pos,
                              [user_id |-> callers[c].uid,
                               face_encoding |-> encoding_json,
                               is_active |-> TRUE,
                               source |-> callers[c].face_encoding])
  /\ callers' = [callers EXCEPT ![c].pc = "flags"]
  /\ UNCHANGED << users, completed, regother >>

\* UPDATE users SET face_registered = TRUE, biometric_enabled = TRUE
RegisterFlags(c) ==
  /\ callers[c].pc = "flags"
  /\ users' = [users EXCEPT ![callers[c].uid].face_registered = TRUE,
                            ![callers[c].uid].biometric_enabled = TRUE]
  /\ callers' = [callers EXCEPT ![c].pc = "commit"]
  /\ UNCHANGED << user_biometrics, completed, regother >>

\* commit(); cursor.close(); return {"success": True, ...}
RegisterReturn(c) ==
  /\ callers[c].pc = "commit"
  /\ completed' = Append(completed,
                         [uid |-> callers[c].uid,
                          face_encoding |-> callers[c].face_encoding,
                          success |-> TRUE])
  /\ callers' = [callers EXCEPT ![c] = IdleCaller]
  /\ UNCHANGED << dbvars, regother >>

\* the statement about to run raises mysql.connector.Error (the server went
\* away): rollback(), which undoes nothing, and return {"success": False}
RegisterFail(c) ==
  /\ callers[c].pc \in {"select", "write", "flags"}
  /\ completed' = Append(completed,
                         [uid |-> callers[c].uid,
                          face_encoding |-> callers[c].face_encoding,
                          success |-> FALSE])
  /\ callers' = [callers EXCEPT ![c] = IdleCaller]
  /\ UNCHANGED << dbvars, regother >>

NextReg ==
  \E c \in Callers :
    \/ RegisterEnter(c)
    \/ RegisterSelect(c)
    \/ RegisterWrite(c)
    \/ RegisterFlags(c)
    \/ RegisterReturn(c)
    \/ RegisterFail(c)

RegSpec == Init /\ [][NextReg]_vars

(***************************************************************************)
(* Password login, lockout and biometric login over time                   *)
(***************************************************************************)
\* the clock stops here
MaxNow == 20

\* minutes between two readings of the clock
TickMinutes == 5

\* wrong passwords are typed while the counter is below this
MaxAttempts == 6

\* the emails typed at login: an account and an unregistered address
Emails == {"u1", "nobody"}

\* the faces shown at login
LoginProbes == { << 120, 3, -123 >>, << 0, 0, 0 >> }

\* u1 and u3 have enrolled a face each, u2 has not; the account u3 may have
\* been deactivated since (users.is_active)
InitLock ==
  /\ InitWindow
  /\ \E active \in BOOLEAN :
       LET fresh == [u \in Users |-> NewAccount(u)]
           r1 == register_face_biometric(fresh, << >>, "u1",
                                         << 122, 0, -122 >>, 1, TRUE)
           r3 == register_face_biometric(r1.users, r1.user_biometrics, "u3",
                                         << 120, 3, -123 >>, 2, TRUE)
       IN  /\ users = [r3.users EXCEPT !["u3"].is_active = active]
           /\ user_biometrics = r3.user_biometrics

lockother ==
  << user_biometrics, authvars, user_id, login_window, root, winvars,
     corevars >>

\* DualAuthDatabase.authenticate_user(email, password)
AuthenticateUser ==
  \E email \in Emails, password \in Passwords :
    /\ email \in Users => users[email].login_attempts < MaxAttempts
    /\ LET r == authenticate_user(users, email, password, now)
       IN  /\ users' = r.users
           /\ login' = [ method |-> "password", email |-> email,
                         password |-> password, face_encoding |-> None,
                         threshold |-> 0, at |-> now, before |-> users,
                         returned |-> r.result ]
           /\ UNCHANGED << now, lockother >>

\* DualAuthDatabase.authenticate_biometric(face_encoding), with the default
\* threshold, and the bookkeeping it does on table users
BiometricLogin ==
  \E face_encoding \in LoginProbes :
    LET r == authenticate_biometric_call(users, user_biometrics,
                                         face_encoding, DefaultThreshold,
                                         TRUE)
    IN  /\ users' = biometric_bookkeeping(users, r.returned, now)
        /\ login' = [ method |-> "biometric", email |-> "none",
                      password |-> "none", face_encoding |-> face_encoding,
                      threshold |-> DefaultThreshold, at |-> now,
                      before |-> users, returned |-> r.returned ]
        /\ UNCHANGED << now, lockother >>

\* time passes
Tick ==
  /\ now + TickMinutes <= MaxNow
  /\ now' = now + TickMinutes
  /\ UNCHANGED << users, login, lockother >>

NextLock ==
  \/ AuthenticateUser
  \/ BiometricLogin
  \/ Tick

LockSpec == InitLock /\ [][NextLock]_vars



(***************************************************************************)
(* LoginWindow: the biometric tab                                          *)
(***************************************************************************)
\* verifications started by handle_biometric_login in one behaviour
MaxVerifications == 2

\* what encode_face_from_image makes of the frame the thread read
LoginEncodings == LoginProbes \cup {None}

\* a sequence without its element i
Without(q, i) == SubSeq(q, 1, i - 1) \o SubSeq(q, i + 1, Len(q))

\* update_camera_controls(camera_active)
update_camera_controls(w, active) ==
  IF active
    THEN [w EXCEPT !.start_camera_btn = DISABLED,
                   !.biometric_login_btn = DISABLED,
                   !.stop_camera_btn = NORMAL]
    ELSE [w EXCEPT !.start_camera_btn = NORMAL,
                   !.biometric_login_btn = DISABLED,
                   !.stop_camera_btn = DISABLED]

\* stop_camera().  The field stopped of a thread is not the program's: it
\* records that stop_camera ran while the thread was at work.
stop_camera(w) ==
  update_camera_controls(
    [w EXCEPT !.camera_active = FALSE, !.detecting_face = FALSE,
              !.face_detected = FALSE,
              !.camera = IF @ = "none" THEN @ ELSE "released",
              !.threads = [i \in 1..Len(@) |-> [@[i] EXCEPT !.stopped = TRUE]]],
    FALSE)

\* update_camera_feed() on a frame that shows a face or not; the handler
\* requeues itself while camera_active
update_camera_feed(w, face) ==
  IF ~w.camera_active \/ w.camera = "none" THEN w
  ELSE IF w.camera # "open" THEN w
  ELSE IF w.detecting_face THEN [w EXCEPT !.face_detected = face]
  ELSE [w EXCEPT !.face_detected = face,
                 !.biometric_login_btn = IF face THEN NORMAL ELSE DISABLED]

\* start_camera(): cv2.VideoCapture(0) opens the device or not
start_camera(w, opened, face) ==
  IF ~opened THEN [w EXCEPT !.camera = "closed"]
  ELSE update_camera_feed(
         update_camera_controls(
           [w EXCEPT !.camera = "open", !.camera_active = TRUE], TRUE),
         face)

\* handle_biometric_login(): the thread it starts is about to read a frame
handle_biometric_login(w) ==
  IF ~w.camera_active \/ w.camera = "none" THEN w
  ELSE IF ~w.face_detected THEN w
  ELSE [w EXCEPT !.detecting_face = TRUE,
                 !.biometric_login_btn = DISABLED,
                 !.start_camera_btn = DISABLED,
                 !.threads = Append(@, [pc |-> "read", encoding |-> None,
                                        stopped |-> FALSE]),
                 !.started = @ + 1]

\* root.after(0, self._reset_biometric_ui, message, False) by thread i,
\* which ends
queue_reset(w, i) ==
  [w EXCEPT !.callbacks =
              Append(@, [name |-> "reset_biometric_ui", success |-> FALSE,
                         user |-> "none", stopped |-> w.threads[i].stopped]),
            !.threads = Without(@, i)]

\* _capture_and_authenticate: ret, frame = camera.read()
thread_read(w, i) ==
  IF w.camera # "open" THEN queue_reset(w, i)
  ELSE [w EXCEPT !.threads[i].pc = "encode"]

\* _capture_and_authenticate: encoding = encode_face_from_image(frame)
thread_encode(w, i, encoding) ==
  IF encoding = None THEN queue_reset(w, i)
  ELSE [w EXCEPT !.threads[i].pc = "authenticate",
                 !.threads[i].encoding = encoding]

\* _capture_and_authenticate: root.after(0, self._handle_auth_result, result)
\* with the dict authenticate_biometric returned
thread_deliver(w, i, result) ==
  [w EXCEPT !.callbacks =
              Append(@, [name |-> "handle_auth_result",
                         success |-> result.success,
                         user |-> IF result.success THEN result.user
                                  ELSE "none",
                         stopped |-> w.threads[i].stopped]),
            !.threads = Without(@, i)]

\* the buttons as _reset_biometric_ui sets them
reset_buttons(w) ==
  IF w.camera_active
    THEN [w EXCEPT !.biometric_login_btn =
                     IF w.face_detected THEN NORMAL ELSE DISABLED,
                   !.start_camera_btn = DISABLED,
                   !.stop_camera_btn = NORMAL]
    ELSE [w EXCEPT !.biometric_login_btn = DISABLED,
                   !.start_camera_btn = NORMAL,
                   !.stop_camera_btn = DISABLED]

\* _reset_biometric_ui(message, False)
reset_biometric_ui(w) == reset_buttons([w EXCEPT !.detecting_face = FALSE])

\* _handle_auth_result(result): on success it queues
\* root.after(2000, self._successful_login_cleanup, user); the
\* _reset_biometric_interface it queues on failure sets labels only
handle_auth_result(w, cb) ==
  LET w1 == [w EXCEPT !.detecting_face = FALSE]
      w2 == IF w1.camera_active THEN reset_buttons(w1) ELSE w1
  IN  IF cb.success
        THEN [w2 EXCEPT !.cleanups =
                          Append(@, [user |-> cb.user,
                                     stopped |-> cb.stopped])]
        ELSE w2

\* DualAuthSystem.start_main_application(user), for a verification that
\* stop_camera had or had not met at work
start_main_application(w, c) ==
  [w EXCEPT !.current_user = c.user, !.root = "destroyed",
            !.stopped_login = c.stopped]

\* _successful_login_cleanup(user)
successful_login_cleanup(w, c) ==
  start_main_application(IF w.camera_active THEN stop_camera(w) ELSE w, c)

loginwinother ==
  << user_biometrics, authvars, user_id, now, login, root, winvars,
     corevars >>

\* the button 'Activar Camara'
LoginStartCamera ==
  /\ login_window.root = "open"
  /\ login_window.start_camera_btn = NORMAL
  /\ \E opened \in BOOLEAN, face \in BOOLEAN :
       login_window' = start_camera(login_window, opened, face)
  /\ UNCHANGED << users, loginwinother >>

\* the button 'Detener Camara'
LoginStopCamera ==
  /\ login_window.root = "open"
  /\ login_window.stop_camera_btn = NORMAL
  /\ login_window' = stop_camera(login_window)
  /\ UNCHANGED << users, loginwinother >>

\* a queued update_camera_feed runs
UpdateCameraFeed ==
  /\ login_window.root = "open"
  /\ login_window.camera_active
  /\ \E face \in BOOLEAN :
       login_window' = update_camera_feed(login_window, face)
  /\ UNCHANGED << users, loginwinother >>

\* the button 'Verificar Identidad'
HandleBiometricLogin ==
  /\ login_window.root = "open"
  /\ login_window.biometric_login_btn = NORMAL
  /\ login_window.started < MaxVerifications
  /\ login_window' = handle_biometric_login(login_window)
  /\ UNCHANGED << users, loginwinother >>

\* a verification thread reads its frame
ThreadRead ==
  /\ login_window.root = "open"
  /\ \E i \in 1..Len(login_window.threads) :
       /\ login_window.threads[i].pc = "read"
       /\ login_window' = thread_read(login_window, i)
  /\ UNCHANGED << users, loginwinother >>

\* a verification thread encodes its frame
ThreadEncode ==
  /\ login_window.root = "open"
  /\ \E i \in 1..Len(login_window.threads), encoding \in LoginEncodings :
       /\ login_window.threads[i].pc = "encode"
       /\ login_window' = thread_encode(login_window, i, encoding)
  /\ UNCHANGED << users, loginwinother >>

\* a verification thread calls authenticate_biometric and queues the result
ThreadAuthenticate ==
  /\ login_window.root = "open"
  /\ \E i \in 1..Len(login_window.threads) :
       /\ login_window.threads[i].pc = "authenticate"
       /\ LET r == authenticate_biometric_call(
                     users, user_biometrics,
                     login_window.threads[i].encoding, DefaultThreshold,
                     TRUE).returned
          IN  /\ users' = biometric_bookkeeping(users, r, now)
              /\ login_window' = thread_deliver(login_window, i, r)
  /\ UNCHANGED loginwinother

\* the Tk main loop runs the first callback queued with root.after(0, ...)
RunCallback ==
  /\ login_window.root = "open"
  /\ login_window.callbacks # << >>
  /\ LET cb == Head(login_window.callbacks)
         w == [login_window EXCEPT !.callbacks = Tail(@)]
     IN  login_window' =
           IF cb.name = "handle_auth_result" THEN handle_auth_result(w, cb)
           ELSE reset_biometric_ui(w)
  /\ UNCHANGED << users, loginwinother >>

\* the Tk main loop runs a queued _successful_login_cleanup
SuccessfulLoginCleanup ==
  /\ login_window.root = "open"
  /\ login_window.cleanups # << >>
  /\ login_window' =
       successful_login_cleanup(
         [login_window EXCEPT !.cleanups = Tail(@)],
         Head(login_window.cleanups))
  /\ UNCHANGED << users, loginwinother >>

NextLogin ==
  \/ LoginStartCamera
  \/ LoginStopCamera
  \/ UpdateCameraFeed
  \/ HandleBiometricLogin
  \/ ThreadRead
  \/ ThreadEncode
  \/ ThreadAuthenticate
  \/ RunCallback
  \/ SuccessfulLoginCleanup

LoginSpec == InitLock /\ [][NextLogin]_vars

\* C21: a verification that stop_camera met while its thread was at work
\* does not log the user in: start_main_application is not invoked for it.
C21_StopCancelsVerification == ~login_window.stopped_login

(***************************************************************************)
(* Properties of the matching engine                                       *)
(***************************************************************************)
RECURSIVE SeqMin(_)
SeqMin(d) ==
  IF Len(d) = 1 THEN d[1] ELSE Min2(Head(d), SeqMin(Tail(d)))

FirstIndex(d, v) == CHOOSE i \in 1..Len(d) : d[i] = v /\ \A j \in 1..(i - 1) : d[j] # v

HasIdentity(result) == "user" \in DOMAIN result

HasConfidence(result) == "confidence" \in DOMAIN result

\* C1: authenticate_biometric accepts exactly when the least of the distances
\* to the loaded templates is strictly below the threshold; an accepted
\* result names the first template, in iteration order, at that least
\* distance, and a rejected result names no identity.
C1_AcceptIffMinBelowThreshold ==
  auth_call.called =>
    IF auth_call.biometric_users = << >>
      THEN ~auth_result.success /\ ~HasIdentity(auth_result)
      ELSE
        LET d == auth_call.distances
            m == SeqMin(d)
        IN  /\ Len(d) = Len(auth_call.biometric_users)
            /\ auth_result.success <=> (m < auth_call.threshold)
            /\ auth_result.success =>
                 auth_result.user =
                   auth_call.biometric_users[FirstIndex(d, m)].user_id
            /\ ~auth_result.success => ~HasIdentity(auth_result)

\* an accepted call where the first two loaded templates of different
\* accounts tie at the least distance
C1_Witness ==
  /\ auth_call.called
  /\ auth_result.success
  /\ Len(auth_call.distances) >= 2
  /\ auth_call.distances[1] = SeqMin(auth_call.distances)
  /\ auth_call.distances[2] = SeqMin(auth_call.distances)
  /\ auth_call.biometric_users[1].user_id # auth_call.biometric_users[2].user_id

\* C5: with no enrolled template loaded, authenticate_biometric rejects with
\* the "no enrolled templates" error, which is not the error of an
\* unrecognized identity, and computes no distance.
C5_EmptySetRejectsDistinctly ==
  (auth_call.called /\ auth_call.biometric_users = << >>) =>
    /\ ~auth_result.success
    /\ auth_result.error = "No hay usuarios con biometria registrada"
    /\ auth_result.error # "No se pudo verificar la identidad biometrica"
    /\ auth_call.distances = << >>
    /\ ~HasIdentity(auth_result)

\* a call that found no active template although a template is stored (its
\* account is deactivated)
C5_Witness ==
  /\ auth_call.called
  /\ auth_call.biometric_users = << >>
  /\ user_biometrics # << >>

\* C6: every distance authenticate_biometric compares with the threshold is
\* the fused four-metric distance compare_encodings returns, and lies in
\* [0, 1].
C6_DistanceIsFused ==
  auth_call.called =>
    \A i \in 1..Len(auth_call.distances) :
      /\ auth_call.distances[i] =
           compare_encodings(
             auth_call.face_encoding,
             json_loads(auth_call.biometric_users[i].face_encoding))
      /\ auth_call.distances[i] >= 0
      /\ auth_call.distances[i] <= Scale

\* C7: an accepted result carries confidence = 1 - (min_distance / threshold),
\* which is greater than 0 and at most 1; a rejected result carries none.
C7_ConfidenceOfAccept ==
  auth_call.called =>
    IF auth_result.success
      THEN /\ HasConfidence(auth_result)
           /\ auth_result.confidence =
                Scale - ((SeqMin(auth_call.distances) * Scale)
                           \div auth_call.threshold)
           /\ auth_result.confidence > 0
           /\ auth_result.confidence <= Scale
      ELSE ~HasConfidence(auth_result)

\* an accepted call at a distance that is neither 0 nor negligible
C7_Witness ==
  /\ auth_call.called
  /\ auth_result.success
  /\ SeqMin(auth_call.distances) > 0
  /\ auth_result.confidence < Scale


(***************************************************************************)
(* Properties of the enrollment window                                     *)
(***************************************************************************)
\* the last capture_sample invocation captured a frame
FrameCaptured == attempt.frame # None

\* the last capture_sample invocation left the session as it was: nothing
\* appended, the counter where it was, no template handed over, the session
\* still registering and exactly one further attempt scheduled
RejectedAndRetried ==
  /\ attempt.samples_after = attempt.samples_before
  /\ attempt.collected_after = attempt.collected_before
  /\ attempt.handed = 0
  /\ attempt.registering_after
  /\ attempt.scheduled = 1

\* registration succeeded: complete_registration disabled the cancel button
Complete == cancel_btn.state = DISABLED

\* C2: the template handed to register_face_biometric is
\* normalize(mean(e1..e5)) over exactly the samples accepted in the session
\* that handed it over.
C2_TemplateIsSessionMean ==
  attempt.handed > 0 =>
    /\ Len(session_encodings) = required_samples
    /\ emitted[Len(emitted)] = Normalize(MeanAxis0(session_encodings))

\* C3: after stop_registration the accepted-sample list, the sample counter
\* and the previous-frame reference are discarded and no template was
\* emitted by it; a session started afterwards holds only its own samples.
C3_CancelDiscards ==
  /\ (root = "open" /\ ~registering /\ ~Complete) =>
       /\ collected_encodings = << >>
       /\ samples_captured = 0
       /\ previous_frame = None
  /\ registering => collected_encodings = session_encodings

\* the attempt that handed a template over had brought the counter to the
\* target
EmitAtTargetOnly ==
  attempt.handed > 0 => attempt.samples_after >= required_samples

\* a step from a Complete state changes neither list, counter, handed-over
\* templates nor the stored template, and stays Complete
NothingAfterComplete ==
  Complete =>
    /\ collected_encodings' = collected_encodings
    /\ samples_captured' = samples_captured
    /\ emitted' = emitted
    /\ user_biometrics' = user_biometrics
    /\ Complete'

\* C4: a template is handed to register_face_biometric only by an attempt
\* that brought the counter to the target, and from Complete on no step
\* appends an encoding, advances the counter or hands over a template.
C4_EmitOnceComplete ==
  /\ []EmitAtTargetOnly
  /\ [][NothingAfterComplete]_vars

\* a capture_sample callback of an older chain ran after registration
\* completed
C4_Witness ==
  /\ Complete
  /\ Len(emitted) = 1
  /\ attempt.outcome = "not_registering"

\* C8: a frame of mean brightness below 50 is rejected as too dark, one above
\* 200 as too bright, 50 and 200 pass; a rejected frame is not encoded,
\* changes neither counter nor list, and the session awaits a further sample.
C8_BrightnessGate ==
  FrameCaptured =>
    LET total == SumSeq(attempt.frame)
        n == Len(attempt.frame)
    IN  /\ (total < BrightnessMin * n) <=> (attempt.outcome = "too_dark")
        /\ (total > BrightnessMax * n) <=> (attempt.outcome = "too_bright")
        /\ attempt.outcome \in {"too_dark", "too_bright"} =>
             (~attempt.encoder_invoked /\ RejectedAndRetried)

\* a too dark frame met after a sample had been accepted
C8_Witness ==
  /\ attempt.outcome = "too_dark"
  /\ attempt.samples_before > 0
  /\ registering
  /\ pending > 0

\* C9: when the frame passed the gates and the encoder returned None, the
\* counter and the list are unchanged and the session stays open for a retry.
C9_EncoderNoneKeepsSlot ==
  (attempt.encoder_invoked /\ attempt.encoding = None) => RejectedAndRetried

\* the encoder returned None after a sample had been accepted
C9_Witness ==
  /\ attempt.encoder_invoked
  /\ attempt.encoding = None
  /\ attempt.samples_before > 0
  /\ registering

\* C10, as claimed: after every attempt that captured a frame the frame is
\* the motion reference of the next attempt.
C10_ReferenceAfterEveryFrame ==
  FrameCaptured =>
    (attempt.previous_after = attempt.frame /\ previous_frame = attempt.frame)

\* C10, amended: after every attempt whose frame passed the brightness gate
\* (rejected for motion, rejected by the encoder, or accepted) the frame is
\* the motion reference of the next attempt.
C10_ReferenceAfterGatedFrame ==
  (FrameCaptured /\ attempt.outcome \notin {"too_dark", "too_bright"}) =>
    (attempt.previous_after = attempt.frame /\ previous_frame = attempt.frame)

\* a frame rejected for motion replaced a different reference
C10_Witness ==
  /\ attempt.outcome = "excess_motion"
  /\ previous_frame = attempt.frame
  /\ registering

\* the frame of the last capture_sample invocation is inside the brightness
\* bounds
BrightnessPassed ==
  LET total == SumSeq(attempt.frame)
      n == Len(attempt.frame)
  IN  total >= BrightnessMin * n /\ total <= BrightnessMax * n

\* C18: the checks of an attempt run in the order brightness, motion,
\* encoder. A frame failing brightness is rejected for brightness whatever
\* its movement and is not encoded; a frame inside the brightness bounds is
\* rejected for motion exactly when a reference exists and the mean absolute
\* difference to it is above 15, and is then neither encoded nor counted;
\* with no reference the frame goes to the encoder; the encoder runs exactly
\* on the frames that passed both gates.
C18_GateOrder ==
  FrameCaptured =>
    /\ ~BrightnessPassed =>
         /\ attempt.outcome \in {"too_dark", "too_bright"}
         /\ ~attempt.encoder_invoked
         /\ attempt.samples_after = attempt.samples_before
    /\ BrightnessPassed =>
         ((attempt.outcome = "excess_motion") <=> attempt.moved)
    /\ attempt.outcome = "excess_motion" =>
         /\ attempt.had_reference
         /\ ~attempt.encoder_invoked
         /\ attempt.samples_after = attempt.samples_before
         /\ attempt.collected_after = attempt.collected_before
    /\ (BrightnessPassed /\ ~attempt.had_reference) =>
         attempt.encoder_invoked
    /\ attempt.encoder_invoked <=> (BrightnessPassed /\ ~attempt.moved)

\* a frame rejected for motion after a sample had been accepted
C18_Witness ==
  /\ attempt.outcome = "excess_motion"
  /\ attempt.moved
  /\ attempt.samples_before > 0
  /\ attempt.samples_after = attempt.samples_before

\* a too dark frame that had also moved against the reference
C18_DarkAndMoved ==
  /\ attempt.outcome = "too_dark"
  /\ attempt.moved

\* the first frame of a window, which has no reference, went to the encoder
C18_NoReference ==
  /\ FrameCaptured
  /\ BrightnessPassed
  /\ ~attempt.had_reference
  /\ attempt.encoder_invoked

\* C20: at no time is more than one capture_sample callback of the window
\* queued or running, also when stop_registration is followed by
\* start_registration while a retry queued earlier has not run yet.
C20_SingleChain == pending <= 1

\* the outcomes of capture_sample after which the session awaits a sample
NonFinalOutcomes ==
  { "read_failed", "too_dark", "too_bright", "excess_motion",
    "no_valid_face", "accepted" }

\* the last invocation, if its outcome was not final, queued exactly one
\* further capture_sample and left the session registering
RetryScheduled ==
  attempt.outcome \in NonFinalOutcomes =>
    (attempt.scheduled = 1 /\ attempt.registering_after)

\* a registering session has a capture_sample callback queued
ChainAlive ==
  (root = "open" /\ registering /\ camera_active) => pending >= 1

\* the session ended by reaching the target: the averaged template was
\* handed to register_face_biometric
TargetReached ==
  /\ ~registering
  /\ attempt.outcome = "target_reached"
  /\ attempt.handed = 1
  /\ Len(session_encodings) = required_samples

\* the session ended by stop_registration from the cancel button
Cancelled ==
  /\ ~registering
  /\ attempt.outcome # "target_reached"

C28_CounterMatchesList ==
  /\ samples_captured = Len(collected_encodings)
  /\ 0 <= samples_captured
  /\ samples_captured <= required_samples

\* the part of C28 about the range of the counter alone
C28_CounterInRange ==
  0 <= samples_captured /\ samples_captured <= required_samples


(***************************************************************************)
(* Properties of the core operations                                       *)
(***************************************************************************)
\* C11: every call of create_encoding, encode_face_from_image,
\* compare_encodings or authenticate_biometric, a failing one included, ends
\* by returning a value (None, the distance 1.0, or a dict with success =
\* False and an error); no exception leaves the call.
C11_FailuresAreValues ==
  op.name # "none" =>
    /\ op.raised = NoException
    /\ (op.name = "authenticate_biometric" /\ ~op.db_ok) =>
         (~op.returned.success /\ "error" \in DOMAIN op.returned)


\* an encoding as the encoder returns it
IsEncoding(v) == v # None /\ Len(v) = 128

\* C14: the encoder returns a vector of exactly 128 elements for every face
\* region of height and width at least 32, whatever its content, and
\* refuses (None) only regions with a side below 32; both for the region
\* encode_face_from_image extracts and for the one create_encoding is given.
C14_EncodesFrom32 ==
  /\ (op.name = "encode_face_from_image" /\ op.extracted) =>
       IF op.face_region.h >= 32 /\ op.face_region.w >= 32
         THEN IsEncoding(op.returned)
         ELSE op.returned = None
  /\ (op.name = "create_encoding" /\ op.face_image.valid) =>
       IF op.face_image.h >= 32 /\ op.face_image.w >= 32
         THEN IsEncoding(op.returned)
         ELSE op.returned = None

\* C15: compare_encodings returns a value in [0, 1] for all inputs, those of
\* different lengths and malformed ones included.
C15_DistanceInUnitRange ==
  op.name = "compare_encodings" =>
    (op.returned >= 0 /\ op.returned <= Scale)

\* C16: compare_encodings(x, x) is exactly 0 for every encoding x, a
\* constant vector and the all-zero vector included.
C16_SelfDistanceZero ==
  (op.name = "compare_encodings" /\ op.encoding1 = op.encoding2) =>
    op.returned = 0

\* C17: compare_encodings(x, y) = compare_encodings(y, x) for all encodings
\* x and y of equal length.
C17_DistanceSymmetric ==
  (op.name = "compare_encodings"
     /\ Len(op.encoding1) = Len(op.encoding2)) =>
    op.returned = op.swapped

\* two different encodings of equal length at a distance strictly between 0
\* and 1
C17_Witness ==
  /\ op.name = "compare_encodings"
  /\ Len(op.encoding1) = Len(op.encoding2)
  /\ op.encoding1 # op.encoding2
  /\ op.returned > 0
  /\ op.returned < Scale
  /\ Norm(op.encoding1) # Norm(op.encoding2)

\* the last call was encode_face_from_image on an image
Located == op.name = "encode_face_from_image" /\ op.image.valid

\* the configurations that detect at least one face on the image of the call
Yielding ==
  { i \in 1..Len(op.image.detections) :
      Len(op.image.detections[i].faces) > 0 }

\* the candidate is inside the area and aspect bounds of the filter
InFilter(face, image) ==
  /\ 100 * face.w * face.h >= image.w * image.h
  /\ 10 * face.w * face.h <= 8 * image.w * image.h
  /\ 10 * face.w >= 7 * face.h
  /\ 10 * face.w <= 14 * face.h

\* C23: encode_face_from_image uses the candidates of the first of the four
\* configurations, in their order, that yields any, whatever the later
\* ones would yield; it returns None when no configuration yields a
\* candidate and when the filter removes every candidate of the one used.
C23_FirstConfigurationUsed ==
  Located =>
    IF Yielding = {}
      THEN op.returned = None /\ op.faces = << >> /\ ~op.extracted
      ELSE
        LET first == CHOOSE i \in Yielding : \A j \in Yielding : i <= j
        IN  /\ op.faces = op.image.detections[first].faces
            /\ op.valid_faces # << >> <=>
                 (\E k \in 1..Len(op.faces) : InFilter(op.faces[k], op.image))
            /\ op.valid_faces = << >> =>
                 (op.returned = None /\ ~op.extracted)
            /\ op.valid_faces # << >> => op.extracted

\* the filter removed the only candidate of the second configuration, and
\* the call returned None although the third configuration yields a face
\* that passes the filter
C23_Witness ==
  /\ Located
  /\ Yielding = {2, 3, 4}
  /\ op.faces = op.image.detections[2].faces
  /\ InFilter(op.image.detections[3].faces[1], op.image)
  /\ op.returned = None

\* C24: the face region of a call that located a face has positive width
\* and height, lies inside the frame, has an area between 0.01 and 0.8 of
\* the frame's and a width between 0.7 and 1.4 of its height.
C24_RegionInvariant ==
  (Located /\ op.extracted) =>
    LET r == op.face_region
        width == r.x2 - r.x1
        height == r.y2 - r.y1
    IN  /\ width > 0 /\ height > 0
        /\ 0 <= r.x1 /\ r.x2 <= op.image.w
        /\ 0 <= r.y1 /\ r.y2 <= op.image.h
        /\ 100 * width * height >= op.image.w * op.image.h
        /\ 10 * width * height <= 8 * op.image.w * op.image.h
        /\ 10 * width >= 7 * height
        /\ 10 * width <= 14 * height

\* the part of C24 about the region being a non-empty part of the frame
C24_RegionInsideFrame ==
  (Located /\ op.extracted) =>
    LET r == op.face_region
    IN  /\ r.x2 - r.x1 > 0 /\ r.y2 - r.y1 > 0
        /\ 0 <= r.x1 /\ r.x2 <= op.image.w
        /\ 0 <= r.y1 /\ r.y2 <= op.image.h
        /\ r.w = r.x2 - r.x1 /\ r.h = r.y2 - r.y1

\* the score of the claim for candidate k of the call, in units of 1/Scale
ScoreOf(k) ==
  LET face == op.valid_faces[k]
      areas == { op.valid_faces[j].w * op.valid_faces[j].h :
                   j \in 1..Len(op.valid_faces) }
      largest == CHOOSE a \in areas : \A b \in areas : b <= a
      cx == op.image.w \div 2
      cy == op.image.h \div 2
      dx == face.x + face.w \div 2 - cx
      dy == face.y + face.h \div 2 - cy
      distance == ISqrt((dx * dx + dy * dy) * Scale * Scale)
      max_possible == ISqrt((cx * cx + cy * cy) * Scale * Scale)
  IN  ( 6 * ((face.w * face.h * Scale) \div largest)
        + 4 * (Scale - (distance * Scale) \div max_possible) ) \div 10

\* C26: the face selected among those that passed the filter has the
\* highest score 0.6 * area / largest area + 0.4 * (1 - distance to the
\* frame centre / largest possible distance), and is the first in detection
\* order of those with the highest score; the region is cut around it.
C26_BestFaceFirstOfHighest ==
  (Located /\ op.valid_faces # << >>) =>
    /\ op.best_face \in 1..Len(op.valid_faces)
    /\ \A k \in 1..Len(op.valid_faces) : ScoreOf(k) <= ScoreOf(op.best_face)
    /\ \A k \in 1..(op.best_face - 1) : ScoreOf(k) < ScoreOf(op.best_face)
    /\ op.face_region = face_region_of(op.valid_faces[op.best_face], op.image)

\* two candidates of equal score, the first selected
C26_Witness ==
  /\ Located
  /\ Len(op.valid_faces) = 2
  /\ op.valid_faces[1] # op.valid_faces[2]
  /\ ScoreOf(1) = ScoreOf(2)
  /\ op.best_face = 1

\* two candidates, the second of higher score and selected
C26_SecondSelected ==
  /\ Located
  /\ Len(op.valid_faces) = 2
  /\ ScoreOf(1) < ScoreOf(2)
  /\ op.best_face = 2

\* the slots lo..hi of the vector v all hold the level x
SlotsHold(v, lo, hi, x) == \A i \in lo..hi : v[i] = x

\* C25: the vector of extract_facial_features has exactly 128 slots laid
\* out, for every input, as LBP (32), Hu moments (7), gradient histogram
\* (16), Gabor energies (8), quadrant statistics (12), eye summary (3, zeros
\* when no eye is detected), spectral pairs (8), zeros up to 128.
C25_FixedLayout ==
  op.name = "extract_facial_features" =>
    LET v == op.returned
        c == op.face_image.content
    IN  /\ Len(v) = 128
        /\ SlotsHold(v, 1, 32, c.lbp)
        /\ SlotsHold(v, 33, 39, c.hu)
        /\ SlotsHold(v, 40, 55, c.grad)
        /\ SlotsHold(v, 56, 63, c.gabor)
        /\ SlotsHold(v, 64, 75, c.stats)
        /\ SlotsHold(v, 76, 78, c.eyes)
        /\ SlotsHold(v, 79, 86, c.fft)
        /\ SlotsHold(v, 87, 128, 0)

\* a face without detected eyes: the eye slots are zero and the spectral
\* values sit where they sit for a face with eyes
C25_Witness ==
  /\ op.name = "extract_facial_features"
  /\ op.face_image.content.eyes = 0
  /\ op.face_image.content.fft # 0
  /\ op.returned[76] = 0
  /\ op.returned[79] = op.face_image.content.fft
  /\ op.returned[86] = op.face_image.content.fft
  /\ op.returned[87] = 0

(***************************************************************************)
(* Properties of the template store                                        *)
(***************************************************************************)
\* C13: every encoding authenticate_biometric loads (json.loads of the text
\* of a fetched row) has the length, the element order and the element
\* values of the encoding register_face_biometric was last given for the
\* row's identity.
C13_StoredEncodingRoundTrips ==
  auth_call.called =>
    \A i \in 1..Len(auth_call.biometric_users) :
      LET row == auth_call.biometric_users[i]
          stored_encoding == json_loads(row.face_encoding)
      IN  /\ Len(stored_encoding) = Len(row.source)
          /\ \A k \in 1..Len(row.source) : stored_encoding[k] = row.source[k]

\* a call that loaded two different templates, both with negative elements
C13_Witness ==
  /\ auth_call.called
  /\ Len(auth_call.biometric_users) >= 2
  /\ auth_call.biometric_users[1].source # auth_call.biometric_users[2].source
  /\ \A i \in 1..2 :
       \E k \in 1..Len(auth_call.biometric_users[i].source) :
         auth_call.biometric_users[i].source[k] < 0

\* the rows of user_biometrics that belong to uid
RowsOf(uid) ==
  { i \in 1..Len(user_biometrics) : user_biometrics[i].user_id = uid }

\* the positions in completed of the successful calls for uid
CompletedFor(uid) ==
  { k \in 1..Len(completed) : completed[k].uid = uid /\ completed[k].success }

\* the encoding of the most recent successful call for uid
LastCompleted(uid) ==
  completed[CHOOSE k \in CompletedFor(uid) :
              \A j \in CompletedFor(uid) : j <= k].face_encoding

\* C12: once the register_face_biometric calls made so far have returned,
\* concurrent ones included, every identity with a successful call has
\* exactly one template in the store, and it is the encoding of the most
\* recent successful call.
C12_OneTemplatePerIdentity ==
  InProgress = {} =>
    \A uid \in Users :
      CompletedFor(uid) # {} =>
        /\ Cardinality(RowsOf(uid)) = 1
        /\ \A i \in RowsOf(uid) :
             json_loads(user_biometrics[i].face_encoding) = LastCompleted(uid)

\* the calls for uid that returned, successful or not
ReturnedFor(uid) ==
  { k \in 1..Len(completed) : completed[k].uid = uid }

\* C27: a register_face_biometric call that returns success False leaves the
\* user's template and the user's face_registered and biometric_enabled flags
\* as they were before it. Every account starts without template and with
\* both flags off, so a user whose calls all returned failure, and for whom
\* no call is under way, still has no template and both flags off.
C27_FailureChangesNothing ==
  \A uid \in Users :
    ( /\ ReturnedFor(uid) # {}
      /\ CompletedFor(uid) = {}
      /\ \A c \in InProgress : callers[c].uid # uid ) =>
      /\ RowsOf(uid) = {}
      /\ ~users[uid].face_registered
      /\ ~users[uid].biometric_enabled


(***************************************************************************)
(* Properties of the password lockout                                      *)
(***************************************************************************)
\* the last login call was authenticate_user for a registered email
PasswordCall == login.method = "password" /\ login.email \in Users

\* the account's row as that call found it
RowBefore == login.before[login.email]

\* the account's row as that call left it
RowAfter == users[login.email]

\* the account was locked when the call was made
LockedAtCall ==
  RowBefore.locked_until # NULL /\ login.at < RowBefore.locked_until

\* the account carried a lock that had run out when the call was made
ExpiredAtCall ==
  RowBefore.locked_until # NULL /\ login.at >= RowBefore.locked_until

\* the password typed is the account's
RightPassword == login.password = PasswordOf[login.email]

C22_ResetSeen ==
  /\ PasswordCall
  /\ login.returned.success
  /\ RowBefore.login_attempts > 0
  /\ RowBefore.locked_until # NULL

\* login_attempts of some account goes back to 0
CounterCleared(u) ==
  users[u].login_attempts # 0 /\ users'[u].login_attempts = 0

\* the step is a successful password login of the account
SuccessfulPasswordLogin(u) ==
  /\ login'.method = "password"
  /\ login'.email = u
  /\ login'.returned.success
  /\ login'.before = users

\* C29: a lock that runs out leaves login_attempts as it is: the counter goes
\* back to 0 in a successful password login only, and the first wrong
\* password after the lock has run out locks the account again at once.
C29_ExpiryKeepsCounter ==
  /\ [][\A u \in Users : CounterCleared(u) => SuccessfulPasswordLogin(u)]_vars
  /\ []( ( PasswordCall /\ ExpiredAtCall /\ ~RightPassword )
         => ( /\ RowAfter.login_attempts = RowBefore.login_attempts + 1
              /\ RowAfter.locked_until = login.at + 15
              /\ login.returned = CredencialesInvalidas ) )

\* a wrong password typed after the lock ran out, the counter still at 5
C29_Witness ==
  /\ PasswordCall
  /\ ExpiredAtCall
  /\ ~RightPassword
  /\ RowBefore.login_attempts = 5
  /\ RowAfter.login_attempts = 6
  /\ RowAfter.locked_until = login.at + 15

(***************************************************************************)
(* Properties of the biometric login                                       *)
(***************************************************************************)
\* the last login call was authenticate_biometric
BiometricCall == login.method = "biometric"

\* table users with no failed attempt counted and no lock placed
WithoutLocks(tbl_users) ==
  [u \in Users |->
     [tbl_users[u] EXCEPT !.login_attempts = 0, !.locked_until = NULL]]

\* C30: authenticate_biometric leaves login_attempts and locked_until of
\* every account as they were, returns what it would return were no account
\* locked, and matches only accounts that are active and biometric-enabled.
C30_BiometricIgnoresLock ==
  BiometricCall =>
    /\ \A u \in Users :
         /\ users[u].login_attempts = login.before[u].login_attempts
         /\ users[u].locked_until = login.before[u].locked_until
    /\ login.returned =
         authenticate_biometric_call(WithoutLocks(login.before),
                                     user_biometrics, login.face_encoding,
                                     login.threshold, TRUE).returned
    /\ login.returned.success
       => ( /\ login.before[login.returned.user].is_active
            /\ login.before[login.returned.user].biometric_enabled )

\* a face logs in the account it matches while that account is locked, and
\* a nearer template of a deactivated account is passed over
C30_Witness ==
  /\ BiometricCall
  /\ login.returned.success
  /\ login.returned.user = "u1"
  /\ login.before["u1"].login_attempts >= 5
  /\ login.before["u1"].locked_until # NULL
  /\ login.at < login.before["u1"].locked_until
  /\ users["u1"].locked_until = login.before["u1"].locked_until
  /\ ~login.before["u3"].is_active

====
